---- MODULE Spec2Model ----
(***************************************************************************)
(* SettingsConstraints (src/Access/SettingsConstraints.cpp): the table of  *)
(* per-setting constraints, its merge, the mode-dependent range resolver   *)
(* and the two validation reactions (throw / clamp).                       *)
(***************************************************************************)
EXTENDS Integers, Sequences, FiniteSets, TLC

VARIABLES
    constraints,        \* SettingsConstraints::constraints : name -> Range
    replace_previous,   \* AccessControl::doesSettingsConstraintsReplacePrevious()
    current_settings,   \* the Settings snapshot handed to check / clamp / get
    changes,            \* the SettingsChanges vector handed to check / clamp (in place)
    passed,             \* the argument of the last call, as it was when the call began
    other,              \* the argument of the last merge
    op,                 \* the last operation called
    rerun,              \* the last call was clamp, on the vector a clamp had just left
    raised              \* the exception the last operation ended with, or NoError

vars == <<constraints, replace_previous, current_settings, changes, passed, other, op, rerun, raised>>

(***************************************************************************)
(* Bounds of the model.                                                    *)
(***************************************************************************)
MaxVal == 2         \* integer Fields are 0..MaxVal
MaxChanges == 1     \* longest SettingsChanges vector handed to a call

(***************************************************************************)
(* Field values.  A String Field with v >= 0 is the decimal text of v; the *)
(* String Field with v = -1 is a text that is not a number ("abc").        *)
(***************************************************************************)
Null == [t |-> "Null", v |-> 0]
IntV(k) == [t |-> "Int64", v |-> k]
StrV(k) == [t |-> "String", v |-> k]
Word == StrV(-1)

IntVals == {IntV(k) : k \in 0..MaxVal}
Texts == {StrV(1), Word}

isNull(x) == x.t = "Null"

(***************************************************************************)
(* Error codes and messages.                                               *)
(***************************************************************************)
NoError == "none"
UNKNOWN_SETTING == "UNKNOWN_SETTING"
CastFailure == "cast failure"
CannotCompare == "cannot compare"
READONLY == "READONLY"
QUERY_IS_PROHIBITED == "QUERY_IS_PROHIBITED"
ShouldNotBeChanged == "SETTING_CONSTRAINT_VIOLATION: should not be changed"
ShouldntBeLess == "SETTING_CONSTRAINT_VIOLATION: shouldn't be less than"
ShouldntBeGreater == "SETTING_CONSTRAINT_VIOLATION: shouldn't be greater than"

THROW_ON_VIOLATION == "THROW_ON_VIOLATION"
CLAMP_ON_VIOLATION == "CLAMP_ON_VIOLATION"

(***************************************************************************)
(* Setting names.  "profile" is the profile switch, which checkImpl        *)
(* accepts before looking at anything else; "allow_ddl" and "readonly" are *)
(* the two names getRange treats specially; "max_threads" is an ordinary   *)
(* setting of integer type; "custom_x" is a setting without a declared     *)
(* type, whose values are stored as given; "unknown_z" is a name the       *)
(* allow-list rejects.                                                     *)
(***************************************************************************)
Names == {"profile", "allow_ddl", "readonly", "max_threads", "custom_x", "unknown_z"}
TypedNames == {"allow_ddl", "readonly", "max_threads"}

(***************************************************************************)
(* Collaborators of the constraint engine.                                 *)
(***************************************************************************)
\* Settings::castValueUtil: the value in the setting's canonical type, or a
\* casting error on type mismatch.  ok = FALSE stands for the exception.
castValueUtil(name, x) ==
    IF name \in TypedNames
    THEN IF x.t = "Int64" THEN [ok |-> TRUE, value |-> x]
         ELSE IF x.t = "String" /\ x.v >= 0 THEN [ok |-> TRUE, value |-> IntV(x.v)]
         ELSE [ok |-> FALSE, value |-> Null]
    ELSE [ok |-> TRUE, value |-> x]

\* applyVisitor(FieldVisitorAccurateLess{}, left, right): "true", "false", or
\* "throw" when the two values cannot be compared.
AccurateLess(left, right) ==
    IF left.t # right.t THEN "throw"
    ELSE IF left.t = "String"
         THEN IF left.v = -1 THEN "false"
              ELSE IF right.v = -1 THEN "true"
              ELSE IF left.v < right.v THEN "true" ELSE "false"
         ELSE IF left.v < right.v THEN "true" ELSE "false"

\* AccessControl::isSettingNameAllowed / checkSettingNameIsAllowed.
isSettingNameAllowed(name) == name # "unknown_z"

\* Settings::tryGet: found = FALSE when the snapshot holds no such setting.
\* The profile switch is not a stored setting; a setting without a declared
\* type is held only once it has been set.
tryGet(settings, name) ==
    CASE name = "readonly" -> [found |-> TRUE, value |-> IntV(settings.readonly)]
      [] name = "allow_ddl" -> [found |-> TRUE, value |-> IntV(IF settings.allow_ddl THEN 1 ELSE 0)]
      [] name = "max_threads" -> [found |-> TRUE, value |-> settings.max_threads]
      [] name = "custom_x" -> [found |-> ~isNull(settings.custom_x), value |-> settings.custom_x]
      [] OTHER -> [found |-> FALSE, value |-> Null]

(***************************************************************************)
(* Range and the constraint table.                                         *)
(***************************************************************************)
\* A default-constructed Range; Range::allowed() returns one.
RangeAllowed ==
    [min_value |-> Null, max_value |-> Null, is_const |-> FALSE,
     changeable_in_readonly |-> FALSE, explain |-> ""]

\* Range::forbidden(explain, code): explain is kept as the error it raises.
RangeForbidden(code) == [RangeAllowed EXCEPT !.explain = code]

EmptyTable == [n \in {} |-> RangeAllowed]

\* constraints[setting_name] of std::unordered_map: inserts a default Range.
Upsert(table, name) ==
    IF name \in DOMAIN table THEN table ELSE table @@ (name :> RangeAllowed)

(***************************************************************************)
(* SettingsConstraints::merge.                                             *)
(***************************************************************************)
\* MergeEntry with is_const assigned from the other entry.
MergeEntryAssignsConst(constraint, other_constraint) ==
    [constraint EXCEPT
        !.min_value = IF ~isNull(other_constraint.min_value)
                      THEN other_constraint.min_value ELSE @,
        !.max_value = IF ~isNull(other_constraint.max_value)
                      THEN other_constraint.max_value ELSE @,
        !.is_const = other_constraint.is_const]

\* The body of the loop of the refining branch: one entry of `other` laid
\* over the entry of this table.
MergeEntry(constraint, other_constraint) ==
    [constraint EXCEPT
        !.min_value = IF ~isNull(other_constraint.min_value)
                      THEN other_constraint.min_value ELSE @,
        !.max_value = IF ~isNull(other_constraint.max_value)
                      THEN other_constraint.max_value ELSE @,
        !.is_const = IF other_constraint.is_const THEN TRUE ELSE @]

merge(table, other_table, replace) ==
    IF replace
    THEN [n \in DOMAIN table \cup DOMAIN other_table |->
            IF n \in DOMAIN other_table THEN other_table[n] ELSE table[n]]
    ELSE [n \in DOMAIN table \cup DOMAIN other_table |->
            IF n \in DOMAIN other_table
            THEN MergeEntry(Upsert(table, n)[n], other_table[n])
            ELSE table[n]]

(***************************************************************************)
(* SettingsConstraints::getRange.                                          *)
(***************************************************************************)
\* getRange that, with readonly = 1, asks only for an entry.
getRangeIgnoresChangeable(settings, table, setting_name) ==
    IF ~settings.allow_ddl /\ setting_name = "allow_ddl"
    THEN RangeForbidden(QUERY_IS_PROHIBITED)
    ELSE IF settings.readonly > 1 /\ setting_name = "readonly"
    THEN RangeForbidden(READONLY)
    ELSE IF settings.readonly = 1
    THEN IF setting_name \notin DOMAIN table
         THEN RangeForbidden(READONLY)
         ELSE table[setting_name]
    ELSE IF setting_name \notin DOMAIN table
         THEN RangeAllowed
         ELSE table[setting_name]

\* getRange that treats readonly = 2 as it treats readonly = 1.
getRangeReadonlyTwoStrict(settings, table, setting_name) ==
    IF ~settings.allow_ddl /\ setting_name = "allow_ddl"
    THEN RangeForbidden(QUERY_IS_PROHIBITED)
    ELSE IF settings.readonly > 1 /\ setting_name = "readonly"
    THEN RangeForbidden(READONLY)
    ELSE IF settings.readonly >= 1
    THEN IF setting_name \notin DOMAIN table \/ ~table[setting_name].changeable_in_readonly
         THEN RangeForbidden(READONLY)
         ELSE table[setting_name]
    ELSE IF setting_name \notin DOMAIN table
         THEN RangeAllowed
         ELSE table[setting_name]

getRange(settings, table, setting_name) ==
    IF ~settings.allow_ddl /\ setting_name = "allow_ddl"
    THEN RangeForbidden(QUERY_IS_PROHIBITED)
    ELSE IF settings.readonly > 1 /\ setting_name = "readonly"
    THEN RangeForbidden(READONLY)
    ELSE IF settings.readonly = 1
    THEN IF setting_name \notin DOMAIN table \/ ~table[setting_name].changeable_in_readonly
         THEN RangeForbidden(READONLY)
         ELSE table[setting_name]
    ELSE IF setting_name \notin DOMAIN table
         THEN RangeAllowed
         ELSE table[setting_name]

(***************************************************************************)
(* SettingsConstraints::Range::check.  The result holds what the call      *)
(* returns (keep), what it leaves in change.value (value) and the          *)
(* exception it ends with (raised, NoError when it returns).               *)
(***************************************************************************)
\* less_or_cannot_compare that lets the comparison's exception through.
less_or_rethrow(reaction, left, right) == AccurateLess(left, right)

less_or_cannot_compare(reaction, left, right) ==
    LET r == AccurateLess(left, right)
    IN  IF reaction = THROW_ON_VIOLATION THEN r
        ELSE IF r = "throw" THEN "true" ELSE r

\* Range::check that leaves a value above the maximum as it is.
RangeCheckNoMaxRewrite(range, change, new_value, reaction) ==
    LET min_value == range.min_value
        max_value == range.max_value
        Throw(e) == [keep |-> FALSE, value |-> change.value, raised |-> e]
        Violation(e) == IF reaction = THROW_ON_VIOLATION THEN Throw(e)
                        ELSE [keep |-> FALSE, value |-> change.value, raised |-> NoError]
        inconsistent == IF ~isNull(min_value) /\ ~isNull(max_value)
                        THEN less_or_cannot_compare(reaction, max_value, min_value)
                        ELSE "false"
        below == IF ~isNull(min_value)
                 THEN less_or_cannot_compare(reaction, new_value, min_value)
                 ELSE "false"
        above == IF ~isNull(max_value)
                 THEN less_or_cannot_compare(reaction, max_value, new_value)
                 ELSE "false"
        after_min == IF below = "true" THEN min_value ELSE change.value
        after_max == after_min
    IN  IF range.explain # "" THEN Violation(range.explain)
        ELSE IF range.is_const THEN Violation(ShouldNotBeChanged)
        ELSE IF inconsistent = "throw" THEN Throw(CannotCompare)
        ELSE IF inconsistent = "true" THEN Violation(ShouldNotBeChanged)
        ELSE IF below = "throw" THEN Throw(CannotCompare)
        ELSE IF below = "true" /\ reaction = THROW_ON_VIOLATION THEN Throw(ShouldntBeLess)
        ELSE IF above = "throw" THEN Throw(CannotCompare)
        ELSE IF above = "true" /\ reaction = THROW_ON_VIOLATION THEN Throw(ShouldntBeGreater)
        ELSE [keep |-> TRUE, value |-> after_max, raised |-> NoError]

\* Range::check that does not look at is_const.
RangeCheckIgnoresConst(range, change, new_value, reaction) ==
    LET min_value == range.min_value
        max_value == range.max_value
        Throw(e) == [keep |-> FALSE, value |-> change.value, raised |-> e]
        Violation(e) == IF reaction = THROW_ON_VIOLATION THEN Throw(e)
                        ELSE [keep |-> FALSE, value |-> change.value, raised |-> NoError]
        inconsistent == IF ~isNull(min_value) /\ ~isNull(max_value)
                        THEN less_or_cannot_compare(reaction, max_value, min_value)
                        ELSE "false"
        below == IF ~isNull(min_value)
                 THEN less_or_cannot_compare(reaction, new_value, min_value)
                 ELSE "false"
        above == IF ~isNull(max_value)
                 THEN less_or_cannot_compare(reaction, max_value, new_value)
                 ELSE "false"
        after_min == IF below = "true" THEN min_value ELSE change.value
        after_max == IF above = "true" THEN max_value ELSE after_min
    IN  IF range.explain # "" THEN Violation(range.explain)
        ELSE IF inconsistent = "throw" THEN Throw(CannotCompare)
        ELSE IF inconsistent = "true" THEN Violation(ShouldNotBeChanged)
        ELSE IF below = "throw" THEN Throw(CannotCompare)
        ELSE IF below = "true" /\ reaction = THROW_ON_VIOLATION THEN Throw(ShouldntBeLess)
        ELSE IF above = "throw" THEN Throw(CannotCompare)
        ELSE IF above = "true" /\ reaction = THROW_ON_VIOLATION THEN Throw(ShouldntBeGreater)
        ELSE [keep |-> TRUE, value |-> after_max, raised |-> NoError]

\* Range::check that returns after the minimum step has rewritten the value.
RangeCheckFirstMatch(range, change, new_value, reaction) ==
    LET min_value == range.min_value
        max_value == range.max_value
        Throw(e) == [keep |-> FALSE, value |-> change.value, raised |-> e]
        Violation(e) == IF reaction = THROW_ON_VIOLATION THEN Throw(e)
                        ELSE [keep |-> FALSE, value |-> change.value, raised |-> NoError]
        inconsistent == IF ~isNull(min_value) /\ ~isNull(max_value)
                        THEN less_or_cannot_compare(reaction, max_value, min_value)
                        ELSE "false"
        below == IF ~isNull(min_value)
                 THEN less_or_cannot_compare(reaction, new_value, min_value)
                 ELSE "false"
        above == IF ~isNull(max_value)
                 THEN less_or_cannot_compare(reaction, max_value, new_value)
                 ELSE "false"
        after_min == IF below = "true" THEN min_value ELSE change.value
        after_max == IF below = "true" THEN after_min
                     ELSE IF above = "true" THEN max_value ELSE after_min
    IN  IF range.explain # "" THEN Violation(range.explain)
        ELSE IF range.is_const THEN Violation(ShouldNotBeChanged)
        ELSE IF inconsistent = "throw" THEN Throw(CannotCompare)
        ELSE IF inconsistent = "true" THEN Violation(ShouldNotBeChanged)
        ELSE IF below = "throw" THEN Throw(CannotCompare)
        ELSE IF below = "true" /\ reaction = THROW_ON_VIOLATION THEN Throw(ShouldntBeLess)
        ELSE IF above = "throw" THEN Throw(CannotCompare)
        ELSE IF above = "true" /\ reaction = THROW_ON_VIOLATION THEN Throw(ShouldntBeGreater)
        ELSE [keep |-> TRUE, value |-> after_max, raised |-> NoError]

RangeCheck(range, change, new_value, reaction) ==
    LET min_value == range.min_value
        max_value == range.max_value
        Throw(e) == [keep |-> FALSE, value |-> change.value, raised |-> e]
        Violation(e) == IF reaction = THROW_ON_VIOLATION THEN Throw(e)
                        ELSE [keep |-> FALSE, value |-> change.value, raised |-> NoError]
        inconsistent == IF ~isNull(min_value) /\ ~isNull(max_value)
                        THEN less_or_cannot_compare(reaction, max_value, min_value)
                        ELSE "false"
        below == IF ~isNull(min_value)
                 THEN less_or_cannot_compare(reaction, new_value, min_value)
                 ELSE "false"
        above == IF ~isNull(max_value)
                 THEN less_or_cannot_compare(reaction, max_value, new_value)
                 ELSE "false"
        after_min == IF below = "true" THEN min_value ELSE change.value
        after_max == IF above = "true" THEN max_value ELSE after_min
    IN  IF range.explain # "" THEN Violation(range.explain)
        ELSE IF range.is_const THEN Violation(ShouldNotBeChanged)
        ELSE IF inconsistent = "throw" THEN Throw(CannotCompare)
        ELSE IF inconsistent = "true" THEN Violation(ShouldNotBeChanged)
        ELSE IF below = "throw" THEN Throw(CannotCompare)
        ELSE IF below = "true" /\ reaction = THROW_ON_VIOLATION THEN Throw(ShouldntBeLess)
        ELSE IF above = "throw" THEN Throw(CannotCompare)
        ELSE IF above = "true" /\ reaction = THROW_ON_VIOLATION THEN Throw(ShouldntBeGreater)
        ELSE [keep |-> TRUE, value |-> after_max, raised |-> NoError]

(***************************************************************************)
(* SettingsConstraints::checkImpl.  The result holds what the call returns *)
(* (keep), the change as the call leaves it and the exception it ends      *)
(* with.                                                                   *)
(***************************************************************************)
\* The lambda cast_value: under CLAMP_ON_VIOLATION the exception of the cast
\* is caught and cannot_cast is set.
cast_value(reaction, setting_name, x) ==
    LET c == castValueUtil(setting_name, x)
    IN  IF c.ok THEN [value |-> c.value, cannot_cast |-> FALSE, raised |-> NoError]
        ELSE IF reaction = THROW_ON_VIOLATION
        THEN [value |-> Null, cannot_cast |-> FALSE, raised |-> CastFailure]
        ELSE [value |-> Null, cannot_cast |-> TRUE, raised |-> NoError]

\* checkImpl without the two tests for an unchanged value.
checkImplNoNoOp(settings, table, change, reaction) ==
    LET setting_name == change.name
        Return(b) == [keep |-> b, change |-> change, raised |-> NoError]
        Throw(e) == [keep |-> FALSE, change |-> change, raised |-> e]
        current == tryGet(settings, setting_name)
        new == cast_value(reaction, setting_name, change.value)
        r == RangeCheck(getRange(settings, table, setting_name), change, new.value, reaction)
    IN  IF setting_name = "profile" THEN Return(TRUE)
        ELSE IF reaction = THROW_ON_VIOLATION /\ ~isSettingNameAllowed(setting_name)
        THEN Throw(UNKNOWN_SETTING)
        ELSE IF ~isSettingNameAllowed(setting_name) THEN Return(FALSE)
        ELSE IF new.raised # NoError THEN Throw(new.raised)
        ELSE IF new.cannot_cast
        THEN Return(FALSE)
        ELSE [keep |-> r.keep, change |-> [change EXCEPT !.value = r.value],
              raised |-> r.raised]

\* checkImpl that drops a name the allow-list rejects under either reaction.
checkImplSilentUnknown(settings, table, change, reaction) ==
    LET setting_name == change.name
        Return(b) == [keep |-> b, change |-> change, raised |-> NoError]
        Throw(e) == [keep |-> FALSE, change |-> change, raised |-> e]
        current == tryGet(settings, setting_name)
        new == cast_value(reaction, setting_name, change.value)
        r == RangeCheck(getRange(settings, table, setting_name), change, new.value, reaction)
    IN  IF setting_name = "profile" THEN Return(TRUE)
        ELSE IF ~isSettingNameAllowed(setting_name) THEN Return(FALSE)
        ELSE IF current.found /\ change.value = current.value THEN Return(FALSE)
        ELSE IF new.raised # NoError THEN Throw(new.raised)
        ELSE IF (current.found /\ new.value = current.value) \/ new.cannot_cast
        THEN Return(FALSE)
        ELSE [keep |-> r.keep, change |-> [change EXCEPT !.value = r.value],
              raised |-> r.raised]

\* checkImpl without the test for a value unchanged once cast.
checkImplNoCastNoOp(settings, table, change, reaction) ==
    LET setting_name == change.name
        Return(b) == [keep |-> b, change |-> change, raised |-> NoError]
        Throw(e) == [keep |-> FALSE, change |-> change, raised |-> e]
        current == tryGet(settings, setting_name)
        new == cast_value(reaction, setting_name, change.value)
        r == RangeCheck(getRange(settings, table, setting_name), change, new.value, reaction)
    IN  IF setting_name = "profile" THEN Return(TRUE)
        ELSE IF reaction = THROW_ON_VIOLATION /\ ~isSettingNameAllowed(setting_name)
        THEN Throw(UNKNOWN_SETTING)
        ELSE IF ~isSettingNameAllowed(setting_name) THEN Return(FALSE)
        ELSE IF current.found /\ change.value = current.value THEN Return(FALSE)
        ELSE IF new.raised # NoError THEN Throw(new.raised)
        ELSE IF new.cannot_cast
        THEN Return(FALSE)
        ELSE [keep |-> r.keep, change |-> [change EXCEPT !.value = r.value],
              raised |-> r.raised]

checkImpl(settings, table, change, reaction) ==
    LET setting_name == change.name
        Return(b) == [keep |-> b, change |-> change, raised |-> NoError]
        Throw(e) == [keep |-> FALSE, change |-> change, raised |-> e]
        current == tryGet(settings, setting_name)
        new == cast_value(reaction, setting_name, change.value)
        r == RangeCheck(getRange(settings, table, setting_name), change, new.value, reaction)
    IN  IF setting_name = "profile" THEN Return(TRUE)
        ELSE IF reaction = THROW_ON_VIOLATION /\ ~isSettingNameAllowed(setting_name)
        THEN Throw(UNKNOWN_SETTING)
        ELSE IF ~isSettingNameAllowed(setting_name) THEN Return(FALSE)
        ELSE IF current.found /\ change.value = current.value THEN Return(FALSE)
        ELSE IF new.raised # NoError THEN Throw(new.raised)
        ELSE IF (current.found /\ new.value = current.value) \/ new.cannot_cast
        THEN Return(FALSE)
        ELSE [keep |-> r.keep, change |-> [change EXCEPT !.value = r.value],
              raised |-> r.raised]

(***************************************************************************)
(* boost::range::remove_erase_if over the vector, with checkImpl as the    *)
(* predicate (check and clamp, in place).                                  *)
(***************************************************************************)
Results(settings, table, cs, reaction) ==
    [i \in 1..Len(cs) |-> checkImpl(settings, table, cs[i], reaction)]

\* The first element whose predicate throws, 0 when none does.
FirstThrow(rs) ==
    IF \E i \in 1..Len(rs) : rs[i].raised # NoError
    THEN CHOOSE i \in 1..Len(rs) :
            /\ rs[i].raised # NoError
            /\ \A j \in 1..(i - 1) : rs[j].raised = NoError
    ELSE 0

\* The elements among the first n the predicate keeps, as it leaves them.
RECURSIVE KeptUpTo(_, _)
KeptUpTo(rs, n) ==
    IF n = 0 THEN << >>
    ELSE IF rs[n].keep THEN Append(KeptUpTo(rs, n - 1), rs[n].change)
    ELSE KeptUpTo(rs, n - 1)

\* What a moved-from SettingChange may hold.
MovedFrom(c) == {c, [name |-> "", value |-> c.value], [name |-> "", value |-> Null]}

\* The vectors remove_erase_if may leave, with the exception it ends with.
\* When the predicate throws at element j nothing is erased: the elements
\* kept so far are at the front, the slots between them and j hold a removed
\* element or the moved-from rest of a kept one, and j.. are untouched.
remove_erase_if(settings, table, cs, reaction) ==
    LET rs == Results(settings, table, cs, reaction)
        j == FirstThrow(rs)
        front == KeptUpTo(rs, j - 1)
        k == Len(front)
        Slot(p) == IF rs[p].keep THEN MovedFrom(cs[p]) ELSE {cs[p]}
        Middles == {m \in [1..(j - 1 - k) -> UNION {Slot(p) : p \in 1..(j - 1)}] :
                        \A q \in 1..(j - 1 - k) : m[q] \in Slot(k + q)}
    IN  IF j = 0
        THEN {[changes |-> KeptUpTo(rs, Len(cs)), raised |-> NoError]}
        ELSE {[changes |-> front \o m \o SubSeq(cs, j, Len(cs)), raised |-> rs[j].raised] :
                m \in Middles}

(***************************************************************************)
(* The inputs the model draws.                                             *)
(***************************************************************************)
\* Values of a setting without a declared type.
CustomVals == {IntV(1), StrV(1), Word}

\* What a caller may propose for a setting.
ProposedValues(name) == IF name \in TypedNames THEN IntVals \cup Texts ELSE CustomVals

\* The canonical values of a setting: what the setters store as its bounds
\* and what a snapshot holds as its current value.
CanonicalValues(name) == IF name \in TypedNames THEN IntVals ELSE CustomVals

\* The Ranges the setters can leave as the table's entry of a setting.
StoredRanges(name) ==
    [min_value : {Null} \cup CanonicalValues(name),
     max_value : {Null} \cup CanonicalValues(name),
     is_const : BOOLEAN, changeable_in_readonly : BOOLEAN, explain : {""}]

\* Snapshots, varied in the fields that bear on the setting `name`.
Snapshots(name) ==
    [readonly : 0..2,
     allow_ddl : IF name = "allow_ddl" THEN BOOLEAN ELSE {TRUE},
     max_threads : IF name = "max_threads" THEN IntVals ELSE {IntV(1)},
     custom_x : IF name = "custom_x" THEN {Null} \cup CustomVals ELSE {Null}]

DefaultSettings == [readonly |-> 0, allow_ddl |-> TRUE, max_threads |-> IntV(1), custom_x |-> Null]

\* The vectors of at most MaxChanges changes to the setting `name`.
Batches(name) ==
    UNION {[1..n -> [name : {name}, value : ProposedValues(name)]] : n \in 0..MaxChanges}

(***************************************************************************)
(* The serving phase: a frozen table, a snapshot and a vector of changes.  *)
(***************************************************************************)
Init ==
    /\ \E name \in Names :
        /\ constraints \in {EmptyTable} \cup {name :> r : r \in StoredRanges(name)}
        /\ current_settings \in Snapshots(name)
        /\ changes \in Batches(name)
    /\ replace_previous = FALSE
    /\ passed = << >>
    /\ other = EmptyTable
    /\ op = "init"
    /\ rerun = FALSE
    /\ raised = NoError

\* check(const Settings &, const SettingChange &)
Check ==
    /\ \E i \in 1..Len(changes) :
        /\ passed' = <<changes[i]>>
        /\ raised' = checkImpl(current_settings, constraints, changes[i], THROW_ON_VIOLATION).raised
    /\ op' = "check"
    /\ rerun' = FALSE
    /\ UNCHANGED <<constraints, replace_previous, current_settings, changes, other>>

\* check(const Settings &, const SettingsChanges &)
CheckAll ==
    /\ LET rs == Results(current_settings, constraints, changes, THROW_ON_VIOLATION)
           j == FirstThrow(rs)
       IN  raised' = IF j = 0 THEN NoError ELSE rs[j].raised
    /\ passed' = changes
    /\ op' = "checkAll"
    /\ rerun' = FALSE
    /\ UNCHANGED <<constraints, replace_previous, current_settings, changes, other>>

\* check(const Settings &, SettingsChanges &)
CheckFilter ==
    /\ \E out \in remove_erase_if(current_settings, constraints, changes, THROW_ON_VIOLATION) :
        /\ changes' = out.changes
        /\ raised' = out.raised
    /\ passed' = changes
    /\ op' = "checkFilter"
    /\ rerun' = FALSE
    /\ UNCHANGED <<constraints, replace_previous, current_settings, other>>

\* clamp(const Settings &, SettingsChanges &)
Clamp ==
    /\ \E out \in remove_erase_if(current_settings, constraints, changes, CLAMP_ON_VIOLATION) :
        /\ changes' = out.changes
        /\ raised' = out.raised
    /\ passed' = changes
    /\ op' = "clamp"
    /\ rerun' = (op = "clamp")
    /\ UNCHANGED <<constraints, replace_previous, current_settings, other>>

Next == Check \/ CheckAll \/ CheckFilter \/ Clamp

Spec == Init /\ [][Next]_vars

(***************************************************************************)
(* The setup phase: the table is built by the setters, clear and merge.    *)
(***************************************************************************)
\* The settings the setup phase constrains.
SetupNames == {"max_threads", "custom_x"}

\* The tables merged in: one entry, of bounds unset or one value.
OtherTables ==
    UNION {{name :> r : r \in {s \in StoredRanges(name) :
                                    /\ s.min_value \in {Null, IntV(1)}
                                    /\ s.max_value \in {Null, IntV(1)}}} :
            name \in SetupNames}

InitTable ==
    /\ constraints = EmptyTable
    /\ replace_previous \in BOOLEAN
    /\ current_settings = DefaultSettings
    /\ changes = << >>
    /\ passed = << >>
    /\ other = EmptyTable
    /\ op = "init"
    /\ rerun = FALSE
    /\ raised = NoError

\* The right operand of the assignment is evaluated first: a cast that throws
\* leaves the table without the entry.
setMinValue ==
    /\ \E name \in SetupNames : \E min_value \in ProposedValues(name) :
        LET c == castValueUtil(name, min_value)
        IN  /\ constraints' = IF c.ok
                              THEN [Upsert(constraints, name) EXCEPT ![name].min_value = c.value]
                              ELSE constraints
            /\ raised' = IF c.ok THEN NoError ELSE CastFailure
    /\ op' = "setMinValue"
    /\ rerun' = FALSE
    /\ other' = EmptyTable
    /\ UNCHANGED <<replace_previous, current_settings, changes, passed>>

setMaxValue ==
    /\ \E name \in SetupNames : \E max_value \in ProposedValues(name) :
        LET c == castValueUtil(name, max_value)
        IN  /\ constraints' = IF c.ok
                              THEN [Upsert(constraints, name) EXCEPT ![name].max_value = c.value]
                              ELSE constraints
            /\ raised' = IF c.ok THEN NoError ELSE CastFailure
    /\ op' = "setMaxValue"
    /\ rerun' = FALSE
    /\ other' = EmptyTable
    /\ UNCHANGED <<replace_previous, current_settings, changes, passed>>

setIsConst ==
    /\ \E name \in SetupNames, is_const \in BOOLEAN :
        constraints' = [Upsert(constraints, name) EXCEPT ![name].is_const = is_const]
    /\ op' = "setIsConst"
    /\ rerun' = FALSE
    /\ other' = EmptyTable
    /\ raised' = NoError
    /\ UNCHANGED <<replace_previous, current_settings, changes, passed>>

setChangableInReadonly ==
    /\ \E name \in SetupNames, changeable_in_readonly \in BOOLEAN :
        constraints' = [Upsert(constraints, name) EXCEPT
                            ![name].changeable_in_readonly = changeable_in_readonly]
    /\ op' = "setChangableInReadonly"
    /\ rerun' = FALSE
    /\ other' = EmptyTable
    /\ raised' = NoError
    /\ UNCHANGED <<replace_previous, current_settings, changes, passed>>

clear ==
    /\ constraints' = EmptyTable
    /\ op' = "clear"
    /\ rerun' = FALSE
    /\ other' = EmptyTable
    /\ raised' = NoError
    /\ UNCHANGED <<replace_previous, current_settings, changes, passed>>

Merge ==
    /\ \E o \in OtherTables :
        /\ constraints' = merge(constraints, o, replace_previous)
        /\ other' = o
    /\ op' = "merge"
    /\ rerun' = FALSE
    /\ raised' = NoError
    /\ UNCHANGED <<replace_previous, current_settings, changes, passed>>

NextTable == setMinValue \/ setMaxValue \/ setIsConst \/ setChangableInReadonly \/ clear \/ Merge

SpecTable == InitTable /\ [][NextTable]_vars

(***************************************************************************)
(* Vocabulary of the properties.                                           *)
(***************************************************************************)
\* A setting: a name the allow-list accepts, other than the profile switch.
IsSetting(name) == name # "profile" /\ isSettingNameAllowed(name)

HasEntry(name) == name \in DOMAIN constraints
Entry(name) == constraints[name]
IsConstSetting(name) == HasEntry(name) /\ Entry(name).is_const

\* The runtime mode forbids every change of the setting.
DdlProhibits(name) == name = "allow_ddl" /\ ~current_settings.allow_ddl
ReadonlyProhibits(name) ==
    \/ name = "readonly" /\ current_settings.readonly = 2
    \/ /\ current_settings.readonly = 1
       /\ ~(HasEntry(name) /\ Entry(name).changeable_in_readonly)
ForbiddenByMode(name) == DdlProhibits(name) \/ ReadonlyProhibits(name)

Current(c) == tryGet(current_settings, c.name)
Canonical(c) == castValueUtil(c.name, c.value)

\* The proposed value is the current one, as given or once cast.
IsNoOp(c) ==
    /\ Current(c).found
    /\ \/ c.value = Current(c).value
       \/ Canonical(c).ok /\ Canonical(c).value = Current(c).value

Indices(cs) == 1..Len(cs)
Count(cs, P(_)) == Cardinality({i \in Indices(cs) : P(cs[i])})
All(cs, P(_)) == \A i \in Indices(cs) : P(cs[i])

\* The entry has both bounds, comparable and in order.
OrderedBounds(name) ==
    /\ HasEntry(name)
    /\ ~isNull(Entry(name).min_value)
    /\ ~isNull(Entry(name).max_value)
    /\ AccurateLess(Entry(name).max_value, Entry(name).min_value) = "false"

Within(name, v) ==
    /\ AccurateLess(v, Entry(name).min_value) = "false"
    /\ AccurateLess(Entry(name).max_value, v) = "false"

(***************************************************************************)
(* C1.  clamp never raises, whatever the table, the mode and the vector;   *)
(* a change to a setting that is const or forbidden by the mode, a change  *)
(* of a name the allow-list rejects and a change whose value cannot be     *)
(* cast are removed from the vector; a comparison that fails is absorbed.  *)
(***************************************************************************)
Unreconcilable(c) ==
    /\ c.name # "profile"
    /\ \/ ~isSettingNameAllowed(c.name)
       \/ ~Canonical(c).ok
       \/ ForbiddenByMode(c.name)
       \/ IsConstSetting(c.name)

ClampNeverRaises ==
    op = "clamp" =>
        /\ raised = NoError
        /\ Len(changes) + Count(passed, Unreconcilable) <= Len(passed)

\* clamp kept a change whose value cannot be compared with the minimum.
ClampAbsorbedComparison ==
    /\ op = "clamp"
    /\ raised = NoError
    /\ Len(passed) = 1
    /\ Len(changes) = 1
    /\ HasEntry(passed[1].name)
    /\ ~isNull(Entry(passed[1].name).min_value)
    /\ AccurateLess(Canonical(passed[1]).value, Entry(passed[1].name).min_value) = "throw"

(***************************************************************************)
(* C2.  For a setting whose range is not forbidden, not const and has      *)
(* comparable bounds min <= max, clamp keeps a change whose canonical      *)
(* value v differs from the current value: as min when v < min, as max     *)
(* when max < v, as proposed when min <= v <= max; every change to such a  *)
(* setting that clamp leaves in the vector lies within [min, max].         *)
(***************************************************************************)
Clampable(c) ==
    /\ IsSetting(c.name)
    /\ OrderedBounds(c.name)
    /\ ~ForbiddenByMode(c.name)
    /\ ~IsConstSetting(c.name)
    /\ Canonical(c).ok
    /\ ~(Current(c).found /\ Canonical(c).value = Current(c).value)

ClampedTo(c, d) ==
    LET v == Canonical(c).value
        min_value == Entry(c.name).min_value
        max_value == Entry(c.name).max_value
    IN  /\ d.name = c.name
        /\ AccurateLess(v, min_value) = "true" => d.value = min_value
        /\ AccurateLess(max_value, v) = "true" => d.value = max_value
        /\ Within(c.name, v) => d.value = c.value

ClampRewritesToBounds ==
    op = "clamp" =>
        /\ All(passed, Clampable) =>
            /\ Len(changes) = Len(passed)
            /\ \A i \in Indices(passed) : ClampedTo(passed[i], changes[i])
        /\ \A j \in Indices(changes) :
            (IsSetting(changes[j].name) /\ OrderedBounds(changes[j].name)) =>
                /\ Canonical(changes[j]).ok
                /\ Within(changes[j].name, Canonical(changes[j]).value)

\* clamp rewrote a value below the minimum to the minimum.
ClampRaisedToMin ==
    /\ op = "clamp"
    /\ Len(passed) = 1
    /\ Clampable(passed[1])
    /\ AccurateLess(Canonical(passed[1]).value, Entry(passed[1].name).min_value) = "true"
    /\ changes = <<[name |-> passed[1].name, value |-> Entry(passed[1].name).min_value]>>
    /\ passed[1].value # Entry(passed[1].name).min_value

(***************************************************************************)
(* C10.  A change to an allowed setting whose value equals the current     *)
(* value, as given or once cast, is a no-op whatever the constraints and   *)
(* the mode: check raises nothing, the in-place check and clamp drop it    *)
(* and raise nothing.                                                      *)
(***************************************************************************)
NoOpChange(c) == isSettingNameAllowed(c.name) /\ IsNoOp(c)

NoOpIsNeverAViolation ==
    /\ (op \in {"check", "checkAll"} /\ All(passed, NoOpChange)) => raised = NoError
    /\ (op \in {"checkFilter", "clamp"} /\ All(passed, NoOpChange)) =>
            (raised = NoError /\ changes = << >>)

\* check accepted a no-op change to a const setting.
NoOpOnConstSetting ==
    /\ op = "check"
    /\ Len(passed) = 1
    /\ NoOpChange(passed[1])
    /\ IsConstSetting(passed[1].name)
    /\ raised = NoError

(***************************************************************************)
(* What check raises for a change to a setting once the change is known    *)
(* not to be a no-op and before the stored Range is looked at: the cast's  *)
(* error, then the mode's.  NoError when neither applies.                  *)
(***************************************************************************)
RaisedBeforeRange(c) ==
    IF ~Canonical(c).ok THEN CastFailure
    ELSE IF DdlProhibits(c.name) THEN QUERY_IS_PROHIBITED
    ELSE IF ReadonlyProhibits(c.name) THEN READONLY
    ELSE NoError

(***************************************************************************)
(* C3.  As stated: for a setting whose entry is const, every proposed      *)
(* change makes check raise "should not be changed" and makes clamp drop   *)
(* the change, whatever the mode, the current and the proposed value.      *)
(***************************************************************************)
ToConstSetting(c) == IsSetting(c.name) /\ IsConstSetting(c.name)

ConstAlwaysRaisesConstantViolation ==
    /\ (op = "check" /\ All(passed, ToConstSetting)) => raised = ShouldNotBeChanged
    /\ (op = "clamp" /\ All(passed, ToConstSetting)) => changes = << >>

(***************************************************************************)
(* C3, amended.  For a setting whose entry is const clamp drops every      *)
(* proposed change.  check raises nothing for a no-op; for any other       *)
(* change it raises the cast's error when the value cannot be cast, the    *)
(* mode's violation when the mode forbids the setting, and "should not be  *)
(* changed" otherwise.                                                     *)
(***************************************************************************)
ConstRejectsEveryRealChange ==
    /\ (op = "check" /\ All(passed, ToConstSetting)) =>
            \A i \in Indices(passed) :
                raised = IF IsNoOp(passed[i]) THEN NoError
                         ELSE IF RaisedBeforeRange(passed[i]) # NoError
                         THEN RaisedBeforeRange(passed[i])
                         ELSE ShouldNotBeChanged
    /\ op = "clamp" =>
            /\ raised = NoError
            /\ Len(changes) + Count(passed, ToConstSetting) <= Len(passed)

\* check raised the constant violation.
CheckRaisedConstantViolation ==
    /\ op = "check"
    /\ Len(passed) = 1
    /\ ToConstSetting(passed[1])
    /\ raised = ShouldNotBeChanged

(***************************************************************************)
(* C4.  As stated: with readonly = 1 a proposed change (of a value that    *)
(* can be cast, not a no-op) to a setting without an entry, or whose entry is not changeable  *)
(* in readonly, makes check raise the readonly violation and clamp drop    *)
(* it; only a setting whose entry is changeable in readonly gets a Range   *)
(* that is not forbidden, and it is the stored one, unmodified.            *)
(***************************************************************************)
NotChangeableInReadonly(c) ==
    /\ IsSetting(c.name)
    /\ ~(HasEntry(c.name) /\ Entry(c.name).changeable_in_readonly)

RealNotChangeableInReadonly(c) ==
    NotChangeableInReadonly(c) /\ Canonical(c).ok /\ ~IsNoOp(c)

OnlyChangeableGetStoredRange ==
    \A name \in Names :
        getRange(current_settings, constraints, name).explain = "" =>
            /\ HasEntry(name)
            /\ Entry(name).changeable_in_readonly
            /\ getRange(current_settings, constraints, name) = Entry(name)

ReadonlyOneAlwaysRaisesReadonly ==
    current_settings.readonly = 1 =>
        /\ (op = "check" /\ All(passed, RealNotChangeableInReadonly)) => raised = READONLY
        /\ (op = "clamp" /\ All(passed, RealNotChangeableInReadonly)) => changes = << >>
        /\ OnlyChangeableGetStoredRange

(***************************************************************************)
(* C4, amended.  With readonly = 1 a change to a setting without an entry, *)
(* or whose entry is not changeable in readonly, is never kept: clamp      *)
(* drops it; check raises nothing when it is a no-op, the cast's error     *)
(* when the value cannot be cast, the DDL violation for allow_ddl when DDL *)
(* is prohibited, and the readonly violation otherwise.  Only a setting    *)
(* whose entry is changeable in readonly gets a Range that is not          *)
(* forbidden, and it is the stored one, unmodified.                        *)
(***************************************************************************)
ReadonlyOneNeverKeeps ==
    current_settings.readonly = 1 =>
        /\ (op = "check" /\ All(passed, NotChangeableInReadonly)) =>
                \A i \in Indices(passed) :
                    raised = IF IsNoOp(passed[i]) THEN NoError
                             ELSE IF ~Canonical(passed[i]).ok THEN CastFailure
                             ELSE IF DdlProhibits(passed[i].name) THEN QUERY_IS_PROHIBITED
                             ELSE READONLY
        /\ op = "clamp" =>
                Len(changes) + Count(passed, NotChangeableInReadonly) <= Len(passed)
        /\ (op = "checkFilter" /\ raised = NoError) =>
                Len(changes) + Count(passed, NotChangeableInReadonly) <= Len(passed)
        /\ OnlyChangeableGetStoredRange

\* check raised the readonly violation for an entry not changeable in readonly.
CheckRaisedReadonly ==
    /\ op = "check"
    /\ current_settings.readonly = 1
    /\ Len(passed) = 1
    /\ IsSetting(passed[1].name)
    /\ HasEntry(passed[1].name)
    /\ ~Entry(passed[1].name).changeable_in_readonly
    /\ raised = READONLY

(***************************************************************************)
(* C5.  As stated: with readonly 0 or 2, any proposed change (of a value   *)
(* that can be cast, not a no-op) to a setting name without an entry is accepted unmodified: *)
(* check does not raise, the in-place check and clamp keep it as proposed. *)
(***************************************************************************)
Unconstrained(c) ==
    /\ IsSetting(c.name)
    /\ ~HasEntry(c.name)
    /\ current_settings.readonly \in {0, 2}

UnconstrainedChange(c) == Unconstrained(c) /\ Canonical(c).ok /\ ~IsNoOp(c)

NoEntryAcceptsAnyChange ==
    All(passed, UnconstrainedChange) =>
        /\ op \in {"check", "checkAll"} => raised = NoError
        /\ op \in {"checkFilter", "clamp"} => (raised = NoError /\ changes = passed)

(***************************************************************************)
(* C5, amended.  With readonly 0 or 2, a proposed change to an allowed     *)
(* setting name without an entry, other than allow_ddl when DDL is         *)
(* prohibited and readonly when readonly is 2, is accepted unmodified when *)
(* its value can be cast and differs, as given and once cast, from the     *)
(* current value: check does not raise, the in-place check and clamp keep  *)
(* it as proposed.                                                         *)
(***************************************************************************)
UnconstrainedRealChange(c) ==
    /\ Unconstrained(c)
    /\ ~ForbiddenByMode(c.name)
    /\ Canonical(c).ok
    /\ ~IsNoOp(c)

NoEntryAcceptsRealChange ==
    All(passed, UnconstrainedRealChange) =>
        /\ op \in {"check", "checkAll"} => raised = NoError
        /\ op \in {"checkFilter", "clamp"} => (raised = NoError /\ changes = passed)

\* clamp kept a change to a setting without an entry in readonly mode 2.
ClampKeptUnconstrained ==
    /\ op = "clamp"
    /\ current_settings.readonly = 2
    /\ Len(passed) = 1
    /\ UnconstrainedRealChange(passed[1])
    /\ changes = passed

(***************************************************************************)
(* C7.  As stated: clamp run on the vector a clamp has just left, with the *)
(* same table and snapshot, leaves the vector unchanged.                   *)
(***************************************************************************)
ClampIsIdempotent == (op = "clamp" /\ rerun) => changes = passed

(***************************************************************************)
(* C7, amended.  clamp run on the vector a clamp has just left rewrites no *)
(* value and drops exactly the entries of settings whose value is the      *)
(* setting's current value: those the first clamp rewrote to a bound equal *)
(* to the current value, now no-ops.                                       *)
(***************************************************************************)
NotCurrent(c) == ~(c.name # "profile" /\ Current(c).found /\ c.value = Current(c).value)

ClampAgainDropsOnlyNoOps == (op = "clamp" /\ rerun) => changes = SelectSeq(passed, NotCurrent)

\* The second clamp dropped an entry the first had rewritten to the current value.
ClampAgainDropped ==
    /\ op = "clamp"
    /\ rerun
    /\ Len(passed) = 1
    /\ changes = << >>

(***************************************************************************)
(* C8.  As stated: the in-place check drops a change whose name the        *)
(* allow-list rejects, without raising.                                    *)
(***************************************************************************)
Disallowed(c) == c.name # "profile" /\ ~isSettingNameAllowed(c.name)

BatchCheckDropsDisallowedSilently ==
    (op = "checkFilter" /\ All(passed, Disallowed)) => (raised = NoError /\ changes = << >>)

(***************************************************************************)
(* C8, amended.  The in-place check drops only no-op changes silently; a   *)
(* change whose name the allow-list rejects raises the allow-list's error  *)
(* and aborts the batch with nothing erased, as a constraint violation     *)
(* does.                                                                   *)
(***************************************************************************)
BatchCheckRaisesOnDisallowed ==
    op = "checkFilter" =>
        /\ All(passed, NoOpChange) => (raised = NoError /\ changes = << >>)
        /\ (\E i \in Indices(passed) : Disallowed(passed[i])) => raised # NoError
        /\ (passed # << >> /\ All(passed, Disallowed)) => raised = UNKNOWN_SETTING
        /\ raised # NoError => Len(changes) = Len(passed)
        /\ raised = NoError => changes = SelectSeq(passed, LAMBDA c : c.name = "profile" \/ ~IsNoOp(c))

\* The in-place check raised on a disallowed name.
BatchCheckRaisedUnknownSetting ==
    /\ op = "checkFilter"
    /\ Len(passed) = 1
    /\ Disallowed(passed[1])
    /\ raised = UNKNOWN_SETTING
    /\ changes = passed

(***************************************************************************)
(* C9.  As stated: when the range is not forbidden, not const and not      *)
(* inconsistent and the canonical value orders below the minimum or cannot *)
(* be compared with it, check raises "shouldn't be less than" and clamp    *)
(* keeps the change with the minimum as its final value.                   *)
(***************************************************************************)
\* The change reaches the minimum step of Range::check.
ReachesMinStep(c) ==
    /\ IsSetting(c.name)
    /\ HasEntry(c.name)
    /\ ~ForbiddenByMode(c.name)
    /\ ~IsConstSetting(c.name)
    /\ Canonical(c).ok
    /\ ~IsNoOp(c)
    /\ ~isNull(Entry(c.name).min_value)
    /\ isNull(Entry(c.name).max_value) \/ OrderedBounds(c.name)

BelowMin(c) == AccurateLess(Canonical(c).value, Entry(c.name).min_value)

BelowOrIncomparable(c) == ReachesMinStep(c) /\ BelowMin(c) \in {"true", "throw"}

AsMin(c) == [name |-> c.name, value |-> Entry(c.name).min_value]

MinStepDecidesAlone ==
    All(passed, BelowOrIncomparable) =>
        /\ (op = "check" /\ passed # << >>) => raised = ShouldntBeLess
        /\ op = "clamp" => changes = [i \in Indices(passed) |-> AsMin(passed[i])]

(***************************************************************************)
(* C9, amended.  When the canonical value orders below the minimum, check  *)
(* raises "shouldn't be less than" and clamp keeps the change with the     *)
(* minimum as its final value.  When it cannot be compared with the        *)
(* minimum, check ends with the comparison's error, and clamp rewrites to  *)
(* the minimum and then runs the maximum step on the canonical value: the  *)
(* final value is the maximum when one is set and the value is above it or *)
(* cannot be compared with it, the minimum otherwise.                      *)
(***************************************************************************)
AfterBothSteps(c) ==
    LET max_value == Entry(c.name).max_value
    IN  IF BelowMin(c) = "throw" /\ ~isNull(max_value)
           /\ AccurateLess(max_value, Canonical(c).value) \in {"true", "throw"}
        THEN [name |-> c.name, value |-> max_value]
        ELSE AsMin(c)

MinStepThenMaxStep ==
    All(passed, BelowOrIncomparable) =>
        /\ op = "check" =>
                \A i \in Indices(passed) :
                    raised = IF BelowMin(passed[i]) = "true" THEN ShouldntBeLess ELSE CannotCompare
        /\ op = "clamp" => changes = [i \in Indices(passed) |-> AfterBothSteps(passed[i])]

\* clamp left the maximum in a change that could not be compared with the minimum.
ClampIncomparableEndsAtMax ==
    /\ op = "clamp"
    /\ Len(passed) = 1
    /\ BelowOrIncomparable(passed[1])
    /\ BelowMin(passed[1]) = "throw"
    /\ changes = <<[name |-> passed[1].name, value |-> Entry(passed[1].name).max_value]>>
    /\ Entry(passed[1].name).max_value # Entry(passed[1].name).min_value

(***************************************************************************)
(* C6.  A refining merge never unsets is_const: a setting that was const   *)
(* in the table, or is const in the merged source, is const in the result, *)
(* also when the source holds the entry with is_const = false.             *)
(***************************************************************************)
ConstNames(table) == {name \in DOMAIN table : table[name].is_const}

RefineMergeKeepsConst ==
    [][(op' = "merge" /\ ~replace_previous') =>
            (ConstNames(constraints) \cup ConstNames(other')) \subseteq ConstNames(constraints')]_vars

\* A refining merge of a source whose entry is not const left a const entry const.
RefineMergeLeftConst ==
    /\ op = "merge"
    /\ ~replace_previous
    /\ \E name \in DOMAIN other :
        /\ ~other[name].is_const
        /\ name \in ConstNames(constraints)

====
